---- MODULE Spec2Model ----
(***************************************************************************)
(* Whitted-style ray tracer over axis-aligned boxes (src/src/main.rs,      *)
(* src/src/block.rs).                                                      *)
(*                                                                         *)
(* Numbers.  Lengths are exact integers in units of ORIGIN_BIAS (1e-4      *)
(* world units), so the bias is 1 and the face tolerance of get_normal     *)
(* (0.001) is 10.  Ray directions have components in {-1, 0, 1}, for which *)
(* 1.0 / d is exact; IEEE infinities and NaN are kept as values of their   *)
(* own (Ext numbers).  Weights (albedo, intensities, ratios) are exact     *)
(* rationals <<numerator, denominator>>.                                   *)
(***************************************************************************)
EXTENDS Integers, Sequences, FiniteSets, TLC

VARIABLES objects, light, stack, last, calls, geom, frame

vars == <<objects, light, stack, last, calls, geom, frame>>

(***************************************************************************)
(* Program constants                                                       *)
(***************************************************************************)
ORIGIN_BIAS == 1

NORMAL_EPS == 10

MAX_DEPTH == 3

SKYBOX_COLOR == <<68, 142, 228>>

(***************************************************************************)
(* Vec3 over the integers                                                  *)
(***************************************************************************)
Abs(a) == IF a < 0 THEN -a ELSE a

VAdd(a, b) == <<a[1] + b[1], a[2] + b[2], a[3] + b[3]>>

VSub(a, b) == <<a[1] - b[1], a[2] - b[2], a[3] - b[3]>>

VScale(a, s) == <<a[1] * s, a[2] * s, a[3] * s>>

VNeg(a) == <<-a[1], -a[2], -a[3]>>

Dot(a, b) == a[1] * b[1] + a[2] * b[2] + a[3] * b[3]

\* |v| and v / |v| for a vector along one axis (the only vectors normalised
\* here); the length of such a vector is the absolute value of its component.
Magnitude(v) == Abs(v[1]) + Abs(v[2]) + Abs(v[3])

Normalize(v) ==
    LET m == Magnitude(v)
    IN  <<v[1] \div m, v[2] \div m, v[3] \div m>>

(***************************************************************************)
(* f32 values of the slab test: finite integers, +inf, -inf, NaN           *)
(***************************************************************************)
Fin(n) == [k |-> "fin", v |-> n]

PInf == [k |-> "pinf", v |-> 0]

NInf == [k |-> "ninf", v |-> 0]

NaN == [k |-> "nan", v |-> 0]

\* 1.0 / d for d in {-1, 0, 1}; 1.0 / 0.0 is +inf.  (1.0 / -0.0 is -inf: it
\* swaps t_min and t_max on that axis, which t1 and t2 undo.)
FInv(d) == IF d = 0 THEN PInf ELSE Fin(d)

\* a * e for a finite a: 0 * inf is NaN
FMul(a, e) ==
    CASE e.k = "fin" -> Fin(a * e.v)
      [] e.k = "nan" -> NaN
      [] e.k = "pinf" -> IF a > 0 THEN PInf ELSE IF a < 0 THEN NInf ELSE NaN
      [] e.k = "ninf" -> IF a > 0 THEN NInf ELSE IF a < 0 THEN PInf ELSE NaN

\* a < b, false when either is NaN
FLt(a, b) ==
    /\ a.k # "nan"
    /\ b.k # "nan"
    /\ \/ a.k = "ninf" /\ b.k # "ninf"
       \/ a.k = "fin" /\ b.k = "pinf"
       \/ a.k = "fin" /\ b.k = "fin" /\ a.v < b.v

\* f32::min and f32::max: a NaN operand is ignored
FMin(a, b) ==
    IF a.k = "nan" THEN b
    ELSE IF b.k = "nan" THEN a
    ELSE IF FLt(b, a) THEN b ELSE a

FMax(a, b) ==
    IF a.k = "nan" THEN b
    ELSE IF b.k = "nan" THEN a
    ELSE IF FLt(a, b) THEN b ELSE a

(***************************************************************************)
(* Intersect                                                               *)
(***************************************************************************)
NoMaterial ==
    [diffuse |-> <<0, 0, 0>>, specular |-> <<0, 1>>,
     albedo |-> <<0, 0, 0, 0>>, refractive_index |-> <<0, 1>>]

IntersectNew(point, normal, distance, material) ==
    [is_intersecting |-> TRUE, point |-> point, normal |-> normal,
     distance |-> distance, material |-> material]

IntersectEmpty ==
    [is_intersecting |-> FALSE, point |-> <<0, 0, 0>>, normal |-> <<0, 0, 0>>,
     distance |-> 0, material |-> NoMaterial]

(***************************************************************************)
(* Block                                                                   *)
(***************************************************************************)
get_normal(self, point) ==
    IF Abs(point[1] - self.min_corner[1]) < NORMAL_EPS THEN <<-1, 0, 0>>
    ELSE IF Abs(point[1] - self.max_corner[1]) < NORMAL_EPS THEN <<1, 0, 0>>
    ELSE IF Abs(point[2] - self.min_corner[2]) < NORMAL_EPS THEN <<0, -1, 0>>
    ELSE IF Abs(point[2] - self.max_corner[2]) < NORMAL_EPS THEN <<0, 1, 0>>
    ELSE IF Abs(point[3] - self.min_corner[3]) < NORMAL_EPS THEN <<0, 0, -1>>
    ELSE <<0, 0, 1>>

\* t_near and t_far of the slab test
SlabNear(self, ray_origin, ray_direction) ==
    LET t_min == [a \in 1..3 |->
                    FMul(self.min_corner[a] - ray_origin[a], FInv(ray_direction[a]))]
        t_max == [a \in 1..3 |->
                    FMul(self.max_corner[a] - ray_origin[a], FInv(ray_direction[a]))]
        t1 == [a \in 1..3 |-> FMin(t_min[a], t_max[a])]
    IN  FMax(FMax(t1[1], t1[2]), t1[3])

SlabFar(self, ray_origin, ray_direction) ==
    LET t_min == [a \in 1..3 |->
                    FMul(self.min_corner[a] - ray_origin[a], FInv(ray_direction[a]))]
        t_max == [a \in 1..3 |->
                    FMul(self.max_corner[a] - ray_origin[a], FInv(ray_direction[a]))]
        t2 == [a \in 1..3 |-> FMax(t_min[a], t_max[a])]
    IN  FMin(FMin(t2[1], t2[2]), t2[3])

ray_intersect_no_front_test(self, ray_origin, ray_direction) ==
    LET t_near == SlabNear(self, ray_origin, ray_direction)
        t_far == SlabFar(self, ray_origin, ray_direction)
    IN  IF t_near.k = "fin" /\ FLt(t_near, t_far)
        THEN LET point == VAdd(ray_origin, VScale(ray_direction, t_near.v))
             IN  IntersectNew(point, get_normal(self, point), t_near.v, self.material)
        ELSE IntersectEmpty

ray_intersect(self, ray_origin, ray_direction) ==
    LET t_near == SlabNear(self, ray_origin, ray_direction)
        t_far == SlabFar(self, ray_origin, ray_direction)
    IN  IF FLt(Fin(0), t_near) /\ FLt(t_near, t_far)
        THEN LET point == VAdd(ray_origin, VScale(ray_direction, t_near.v))
             IN  IntersectNew(point, get_normal(self, point), t_near.v, self.material)
        ELSE IntersectEmpty

(***************************************************************************)
(* Exact rationals <<n, d>>, d > 0, in lowest terms                        *)
(***************************************************************************)
RECURSIVE Gcd(_, _)
Gcd(a, b) == IF b = 0 THEN a ELSE Gcd(b, a % b)

Rat(n, d) ==
    LET g == Gcd(Abs(n), Abs(d))
        s == IF d < 0 THEN -1 ELSE 1
    IN  <<(s * n) \div g, (s * d) \div g>>

RInt(a) == Rat(a, 1)

RAdd(p, q) == Rat(p[1] * q[2] + q[1] * p[2], p[2] * q[2])

RSub(p, q) == Rat(p[1] * q[2] - q[1] * p[2], p[2] * q[2])

RMul(p, q) == Rat(p[1] * q[1], p[2] * q[2])

RInv(p) == Rat(p[2], p[1])

RLt(p, q) == p[1] * q[2] < q[1] * p[2]

RMin(p, q) == IF RLt(q, p) THEN q ELSE p

RMax(p, q) == IF RLt(p, q) THEN q ELSE p

\* sqrt of a rational whose numerator and denominator are perfect squares
RSqrt(p) ==
    <<CHOOSE s \in 0..p[1] : s * s = p[1], CHOOSE s \in 1..p[2] : s * s = p[2]>>

\* the integer a rational is equal to
RToInt(p) == p[1] \div p[2]

\* x.powf(e) for x in {0, 1}: 1 to any power is 1, 0 to a positive power is 0,
\* and anything to the power 0 is 1
Powf(x, e) == IF e[1] = 0 THEN RInt(1) ELSE x

(***************************************************************************)
(* Color: three 8-bit channels; scaling truncates and saturates, addition  *)
(* saturates, to_hex packs red into the most significant byte              *)
(***************************************************************************)
Clamp8(n) == IF n < 0 THEN 0 ELSE IF n > 255 THEN 255 ELSE n

ColorBlack == <<0, 0, 0>>

ColorMul(c, r) ==
    [i \in 1..3 |-> IF r[1] <= 0 THEN 0 ELSE Clamp8((c[i] * r[1]) \div r[2])]

ColorAdd(a, b) == [i \in 1..3 |-> Clamp8(a[i] + b[i])]

to_hex(c) == c[1] * 65536 + c[2] * 256 + c[3]

(***************************************************************************)
(* main.rs: offset_origin, reflect, refract                                *)
(***************************************************************************)
offset_origin_opposite_sign(intersect, direction) ==
    LET offset == VScale(intersect.normal, ORIGIN_BIAS)
    IN  IF Dot(direction, intersect.normal) < 0
        THEN VAdd(intersect.point, offset)
        ELSE VSub(intersect.point, offset)

offset_origin(intersect, direction) ==
    LET offset == VScale(intersect.normal, ORIGIN_BIAS)
    IN  IF Dot(direction, intersect.normal) < 0
        THEN VSub(intersect.point, offset)
        ELSE VAdd(intersect.point, offset)

reflect(incident, normal) ==
    VSub(incident, VScale(normal, 2 * Dot(incident, normal)))

\* The refracted direction, for incident and normal with integer components
\* and a positive rational eta_t, where the result has integer components.
refract(incident, normal, eta_t) ==
    LET d == Dot(incident, normal)
        cosi == -(IF d < -1 THEN -1 ELSE IF d > 1 THEN 1 ELSE d)
        n_cosi == IF cosi < 0 THEN -cosi ELSE cosi
        eta == IF cosi < 0 THEN RInv(eta_t) ELSE eta_t
        n_normal == IF cosi < 0 THEN VNeg(normal) ELSE normal
        k == RSub(RInt(1), RMul(RMul(eta, eta), RInt(1 - n_cosi * n_cosi)))
    IN  IF RLt(k, RInt(0))
        THEN reflect(incident, n_normal)
        ELSE LET c == RSub(RMul(eta, RInt(n_cosi)), RSqrt(k))
             IN  [a \in 1..3 |->
                    RToInt(RAdd(RMul(eta, RInt(incident[a])),
                                RMul(c, RInt(n_normal[a]))))]

(***************************************************************************)
(* main.rs: cast_shadow                                                    *)
(***************************************************************************)
\* The loop of cast_shadow from object i on: the intensity it ends with and
\* the number of objects it has tested when it stops.
RECURSIVE ShadowScan(_, _, _, _, _)
ShadowScan(objs, shadow_ray_origin, light_dir, light_distance, i) ==
    IF i > Len(objs)
    THEN [shadow_intensity |-> RInt(0), examined |-> Len(objs)]
    ELSE LET shadow_intersect == ray_intersect(objs[i], shadow_ray_origin, light_dir)
         IN  IF shadow_intersect.is_intersecting
                /\ shadow_intersect.distance < light_distance
             THEN LET distance_ratio == Rat(shadow_intersect.distance, light_distance)
                  IN  [shadow_intensity |->
                          RSub(RInt(1), RMin(RMul(distance_ratio, distance_ratio), RInt(1))),
                       examined |-> i]
             ELSE ShadowScan(objs, shadow_ray_origin, light_dir, light_distance, i + 1)

\* The same loop without its break: the last occluder in list order decides.
RECURSIVE ShadowScanNoBreak(_, _, _, _, _, _)
ShadowScanNoBreak(objs, shadow_ray_origin, light_dir, light_distance, i, acc) ==
    IF i > Len(objs)
    THEN [shadow_intensity |-> acc, examined |-> Len(objs)]
    ELSE LET shadow_intersect == ray_intersect(objs[i], shadow_ray_origin, light_dir)
             hit == shadow_intersect.is_intersecting
                    /\ shadow_intersect.distance < light_distance
             distance_ratio == Rat(shadow_intersect.distance, light_distance)
         IN  ShadowScanNoBreak(objs, shadow_ray_origin, light_dir, light_distance, i + 1,
                 IF hit
                 THEN RSub(RInt(1), RMin(RMul(distance_ratio, distance_ratio), RInt(1)))
                 ELSE acc)

cast_shadow_no_break(intersect, lgt, objs) ==
    LET light_dir == Normalize(VSub(lgt.position, intersect.point))
        light_distance == Magnitude(VSub(lgt.position, intersect.point))
        shadow_ray_origin == offset_origin(intersect, light_dir)
    IN  ShadowScanNoBreak(objs, shadow_ray_origin, light_dir, light_distance, 1, RInt(0))

cast_shadow(intersect, lgt, objs) ==
    LET light_dir == Normalize(VSub(lgt.position, intersect.point))
        light_distance == Magnitude(VSub(lgt.position, intersect.point))
        shadow_ray_origin == offset_origin(intersect, light_dir)
    IN  ShadowScan(objs, shadow_ray_origin, light_dir, light_distance, 1)

(***************************************************************************)
(* main.rs: cast_ray, one stack frame per invocation                       *)
(***************************************************************************)
\* The nearest-hit loop of cast_ray from object i on
RECURSIVE NearestScan(_, _, _, _, _, _)
NearestScan(objs, ray_origin, ray_direction, i, intersect, zbuffer) ==
    IF i > Len(objs)
    THEN intersect
    ELSE LET h == ray_intersect(objs[i], ray_origin, ray_direction)
         IN  IF h.is_intersecting /\ FLt(Fin(h.distance), zbuffer)
             THEN NearestScan(objs, ray_origin, ray_direction, i + 1, h, Fin(h.distance))
             ELSE NearestScan(objs, ray_origin, ray_direction, i + 1, intersect, zbuffer)

\* The same loop keeping the last of several hits at the same distance
RECURSIVE NearestScanLastTie(_, _, _, _, _, _)
NearestScanLastTie(objs, ray_origin, ray_direction, i, intersect, zbuffer) ==
    IF i > Len(objs)
    THEN intersect
    ELSE LET h == ray_intersect(objs[i], ray_origin, ray_direction)
         IN  IF h.is_intersecting /\ ~FLt(zbuffer, Fin(h.distance))
             THEN NearestScanLastTie(objs, ray_origin, ray_direction, i + 1, h,
                                     Fin(h.distance))
             ELSE NearestScanLastTie(objs, ray_origin, ray_direction, i + 1, intersect,
                                     zbuffer)

NearestLastTie(objs, ray_origin, ray_direction) ==
    NearestScanLastTie(objs, ray_origin, ray_direction, 1, IntersectEmpty, PInf)

Nearest(objs, ray_origin, ray_direction) ==
    NearestScan(objs, ray_origin, ray_direction, 1, IntersectEmpty, PInf)

NoShadow == [shadow_intensity |-> RInt(0), examined |-> 0]

NewFrame(ray_origin, ray_direction, depth, via) ==
    [ray_origin |-> ray_origin, ray_direction |-> ray_direction, depth |-> depth,
     via |-> via, pc |-> "entry", intersect |-> IntersectEmpty,
     tested |-> 0, shadowed |-> 0, shadow |-> NoShadow,
     diffuse |-> ColorBlack, specular |-> ColorBlack,
     reflect_color |-> ColorBlack, refract_color |-> ColorBlack,
     children |-> <<>>]

NoReturn == [NewFrame(<<0, 0, 0>>, <<0, 0, 0>>, 0, "none") EXCEPT !.pc = "none"]
                @@ [color |-> ColorBlack]

Top == stack[Len(stack)]

\* cast_ray returns color from frame fr (the top of the stack): the frame is
\* popped and the caller, if any, takes the color as its reflect_color or
\* refract_color and goes on.
Return(fr, color) ==
    LET n == Len(stack)
        rest == SubSeq(stack, 1, n - 1)
    IN  /\ last' = [fr EXCEPT !.pc = "returned"] @@ [color |-> color]
        /\ stack' =
             IF n = 1 THEN <<>>
             ELSE IF stack[n - 1].pc = "wait_reflect"
             THEN [rest EXCEPT ![n - 1].reflect_color = color, ![n - 1].pc = "refract"]
             ELSE [rest EXCEPT ![n - 1].refract_color = color, ![n - 1].pc = "compose"]

DepthCapLoose(depth) == depth > MAX_DEPTH + 1

DepthCap(depth) == depth > MAX_DEPTH

\* if depth > 3 { return SKYBOX_COLOR; }
Terminal ==
    /\ stack # <<>>
    /\ Top.pc = "entry"
    /\ DepthCap(Top.depth)
    /\ Return(Top, SKYBOX_COLOR)
    /\ UNCHANGED <<objects, light, calls, geom, frame>>

MissBlack ==
    /\ stack # <<>>
    /\ Top.pc = "entry"
    /\ ~DepthCap(Top.depth)
    /\ ~Nearest(objects, Top.ray_origin, Top.ray_direction).is_intersecting
    /\ Return([Top EXCEPT !.tested = Len(objects)], ColorBlack)
    /\ UNCHANGED <<objects, light, calls, geom, frame>>

\* the scan over the objects finds no hit: return SKYBOX_COLOR
Miss ==
    /\ stack # <<>>
    /\ Top.pc = "entry"
    /\ ~DepthCap(Top.depth)
    /\ ~Nearest(objects, Top.ray_origin, Top.ray_direction).is_intersecting
    /\ Return([Top EXCEPT !.tested = Len(objects)], SKYBOX_COLOR)
    /\ UNCHANGED <<objects, light, calls, geom, frame>>

\* the scan finds a hit: shadow, diffuse and specular terms (lines 111-122)
Shade ==
    /\ stack # <<>>
    /\ Top.pc = "entry"
    /\ ~DepthCap(Top.depth)
    /\ LET intersect == Nearest(objects, Top.ray_origin, Top.ray_direction)
           light_dir == Normalize(VSub(light.position, intersect.point))
           view_dir == Normalize(VSub(Top.ray_origin, intersect.point))
           reflect_dir == Normalize(reflect(VNeg(light_dir), intersect.normal))
           shadow == cast_shadow(intersect, light, objects)
           light_intensity ==
               RMul(light.intensity, RSub(RInt(1), shadow.shadow_intensity))
           diffuse_intensity ==
               RMin(RMax(RInt(Dot(intersect.normal, light_dir)), RInt(0)), RInt(1))
           diffuse ==
               ColorMul(ColorMul(ColorMul(intersect.material.diffuse,
                                          intersect.material.albedo[1]),
                                 diffuse_intensity), light_intensity)
           specular_intensity ==
               Powf(RMax(RInt(Dot(view_dir, reflect_dir)), RInt(0)),
                    intersect.material.specular)
           specular ==
               ColorMul(ColorMul(ColorMul(light.color, intersect.material.albedo[2]),
                                 specular_intensity), light_intensity)
       IN  /\ intersect.is_intersecting
           /\ stack' = [stack EXCEPT ![Len(stack)] =
                          [@ EXCEPT !.pc = "reflect", !.intersect = intersect,
                                    !.tested = Len(objects), !.shadowed = 1,
                                    !.shadow = shadow, !.diffuse = diffuse,
                                    !.specular = specular]]
    /\ UNCHANGED <<objects, light, last, calls, geom, frame>>

\* material.albedo[i], i counted from 0 as in the source
Albedo(material, i) == material.albedo[i + 1]

ReflectsAlways(material) == TRUE

\* if reflectivity > 0.0
Reflects(material) == RLt(RInt(0), Albedo(material, 2))

\* if transparency > 0.0
Transmits(material) == RLt(RInt(0), Albedo(material, 3))

\* the callee of a recursive call is one level deeper
ChildDepth(depth) == depth + 1

\* lines 124-130: the reflection ray, when the material reflects
Reflect ==
    /\ stack # <<>>
    /\ Top.pc = "reflect"
    /\ LET n == Len(stack)
           intersect == Top.intersect
           reflect_dir == Normalize(reflect(Top.ray_direction, intersect.normal))
           reflect_origin == offset_origin(intersect, reflect_dir)
           depth == ChildDepth(Top.depth)
       IN  IF Reflects(intersect.material)
           THEN /\ stack' = Append(
                       [stack EXCEPT ![n].pc = "wait_reflect",
                                     ![n].children = Append(@, <<"reflect", depth>>)],
                       NewFrame(reflect_origin, reflect_dir, depth, "reflect"))
                /\ calls' = calls + 1
           ELSE /\ stack' = [stack EXCEPT ![n].pc = "refract"]
                /\ calls' = calls
    /\ UNCHANGED <<objects, light, last, geom, frame>>

\* lines 133-139: the refraction ray, when the material transmits
Refract ==
    /\ stack # <<>>
    /\ Top.pc = "refract"
    /\ LET n == Len(stack)
           intersect == Top.intersect
           refract_dir == refract(Top.ray_direction, intersect.normal,
                                  intersect.material.refractive_index)
           refract_origin == offset_origin(intersect, refract_dir)
           depth == ChildDepth(Top.depth)
       IN  IF Transmits(intersect.material)
           THEN /\ stack' = Append(
                       [stack EXCEPT ![n].pc = "wait_refract",
                                     ![n].children = Append(@, <<"refract", depth>>)],
                       NewFrame(refract_origin, refract_dir, depth, "refract"))
                /\ calls' = calls + 1
           ELSE /\ stack' = [stack EXCEPT ![n].pc = "compose"]
                /\ calls' = calls
    /\ UNCHANGED <<objects, light, last, geom, frame>>

\* line 141
Composite(material, diffuse, specular, reflect_color, refract_color) ==
    LET reflectivity == Albedo(material, 2)
        transparency == Albedo(material, 3)
    IN  ColorAdd(ColorAdd(ColorMul(ColorAdd(diffuse, specular),
                                   RSub(RSub(RInt(1), reflectivity), transparency)),
                          ColorMul(reflect_color, reflectivity)),
                 ColorMul(refract_color, transparency))

Compose ==
    /\ stack # <<>>
    /\ Top.pc = "compose"
    /\ Return(Top, Composite(Top.intersect.material, Top.diffuse, Top.specular,
                             Top.reflect_color, Top.refract_color))
    /\ UNCHANGED <<objects, light, calls, geom, frame>>

(***************************************************************************)
(* Scenes, lights and primary rays of the cast_ray specification: boxes    *)
(* stacked along the z axis, the ray and the light on that axis            *)
(***************************************************************************)
MaxObjects == 2

StackSize == 7

Tenths(n) == Rat(n, 10)

rubber ==
    [diffuse |-> <<80, 0, 0>>, specular |-> RInt(1),
     albedo |-> <<Tenths(9), Tenths(1), Tenths(0), Tenths(0)>>,
     refractive_index |-> RInt(0)]

awa ==
    [diffuse |-> <<64, 164, 223>>, specular |-> Tenths(9),
     albedo |-> <<Tenths(1), Tenths(8), Tenths(1), Tenths(6)>>,
     refractive_index |-> Rat(133, 100)]

mirror ==
    [diffuse |-> <<255, 255, 255>>, specular |-> RInt(0),
     albedo |-> <<Tenths(0), Tenths(0), Tenths(10), Tenths(0)>>,
     refractive_index |-> RInt(1)]

Slab(zmin, zmax, material) ==
    [min_corner |-> <<-20, -20, zmin>>, max_corner |-> <<20, 20, zmax>>,
     material |-> material]

Blocks ==
    {Slab(20, 40, awa), Slab(10, 40, mirror), Slab(60, 64, awa),
     Slab(80, 95, rubber), Slab(-20, 0, rubber)}

GlassStack == [k \in 1..StackSize |-> Slab(30 * k - 90, 30 * k - 80, awa)]

\* a hit on the top of the first box whose shadow ray passes two occluders,
\* the farther one first in list order
OccluderScene == <<Slab(20, 40, awa), Slab(80, 95, rubber), Slab(60, 64, awa)>>

\* a far hit first in list order, then two boxes hit at the same distance
TieScene == <<Slab(-20, 0, rubber), Slab(20, 40, awa), Slab(10, 40, mirror)>>

Scenes ==
    UNION {[1..n -> Blocks] : n \in 0..MaxObjects}
        \cup {GlassStack, OccluderScene, TieScene}

Lights ==
    {[position |-> <<0, 0, z>>, color |-> <<255, 255, 255>>, intensity |-> RInt(1)] :
        z \in {145, 75, -45}}

PrimaryRays ==
    {<<<<0, 0, 50>>, <<0, 0, -1>>>>, <<<<0, 0, 50>>, <<0, 0, 1>>>>,
     <<<<0, 0, 100>>, <<0, 0, -1>>>>}

EntryDepths == {0, MAX_DEPTH + 1, MAX_DEPTH + 2}

GeomIdle == [pc |-> "idle"]

FrameIdle == [pc |-> "idle"]

Init ==
    /\ objects \in Scenes
    /\ light \in Lights
    /\ \E ray \in PrimaryRays, depth \in EntryDepths :
          stack = <<NewFrame(ray[1], ray[2], depth, "primary")>>
    /\ last = NoReturn
    /\ calls = 1
    /\ geom = GeomIdle
    /\ frame = FrameIdle

Next ==
    \/ Terminal
    \/ Miss
    \/ Shade
    \/ Reflect
    \/ Refract
    \/ Compose

Spec == Init /\ [][Next]_vars

(***************************************************************************)
(* Properties of cast_ray and cast_shadow (specification Spec)             *)
(***************************************************************************)
Returned == last.pc = "returned"

\* the objects the ray of frame fr intersects
HitSet(fr) ==
    {i \in 1..Len(objects) :
        ray_intersect(objects[i], fr.ray_origin, fr.ray_direction).is_intersecting}

HitDistance(fr, i) ==
    ray_intersect(objects[i], fr.ray_origin, fr.ray_direction).distance

\* the earliest object among those hit at the least distance
FirstNearest(fr) ==
    CHOOSE i \in HitSet(fr) :
        \A j \in HitSet(fr) :
            \/ HitDistance(fr, i) < HitDistance(fr, j)
            \/ HitDistance(fr, i) = HitDistance(fr, j) /\ i <= j

\* frames that are past the scan of cast_ray
\* (the frames below the top of the stack were the top when they were scanned)
Scanned ==
    (IF stack # <<>> /\ Top.pc # "entry" THEN {Top} ELSE {})
        \cup (IF Returned /\ ~DepthCap(last.depth) THEN {last} ELSE {})

\* C1 as stated: one primary ray causes at most 15 invocations of cast_ray,
\* the immediate sky returns at depth 4 included.
C1_AtMost15Calls == calls <= 15

\* C1 amended: one primary ray causes at most 31 invocations of cast_ray
\* (1 + 2 + 4 + 8 at depths 0..3, which shade, and 16 at depth 4, which
\* return the sky color at once).
C1_AtMost31Calls == calls <= 31

C1_Witness == stack = <<>> /\ Returned /\ last.depth = 0 /\ calls = 31

\* C2: a cast_ray invocation with depth > 3 returns the sky color and has
\* tested no object, made no shadow test and no recursive call.
C2_DepthCapReturnsSky ==
    /\ Returned /\ last.depth > 3 =>
          /\ last.color = SKYBOX_COLOR
          /\ last.tested = 0
          /\ last.shadowed = 0
          /\ last.children = <<>>
    /\ \A i \in 1..Len(stack) :
          stack[i].depth > 3 =>
              stack[i].tested = 0 /\ stack[i].shadowed = 0 /\ stack[i].children = <<>>

C2_Witness ==
    /\ Returned
    /\ last.depth = 4
    /\ last.via = "primary"
    /\ HitSet(last) # {}

\* the recursive calls cast_ray makes for a hit of the given material, from
\* depth: reflection first, then refraction, each one level deeper
ExpectedChildren(material, depth) ==
    (IF RLt(RInt(0), material.albedo[3]) THEN <<<<"reflect", depth + 1>>>> ELSE <<>>)
        \o (IF RLt(RInt(0), material.albedo[4]) THEN <<<<"refract", depth + 1>>>> ELSE <<>>)

\* C3: a shading invocation makes the reflection call iff albedo[2] > 0 and the
\* refraction call iff albedo[3] > 0, each with depth + 1, reflection first;
\* none at all when both weights are 0.
C3_RecursionFollowsAlbedo ==
    /\ Returned /\ last.intersect.is_intersecting =>
          last.children = ExpectedChildren(last.intersect.material, last.depth)
    /\ \A i \in 1..Len(stack) - 1 :
          /\ stack[i + 1].depth = stack[i].depth + 1
          /\ stack[i].pc = "wait_reflect" =>
                /\ stack[i + 1].via = "reflect"
                /\ RLt(RInt(0), stack[i].intersect.material.albedo[3])
                /\ stack[i].children = <<<<"reflect", stack[i].depth + 1>>>>
          /\ stack[i].pc = "wait_refract" =>
                /\ stack[i + 1].via = "refract"
                /\ RLt(RInt(0), stack[i].intersect.material.albedo[4])

C3_Witness ==
    /\ Returned
    /\ last.intersect.is_intersecting
    /\ last.intersect.material.albedo[3] = RInt(0)
    /\ last.intersect.material.albedo[4] = RInt(0)
    /\ last.children = <<>>
    /\ last.depth = 0

\* C4: over an empty scene every cast_ray invocation returns the sky color and
\* makes no recursive call and no shadow test.
C4_EmptySceneIsSky ==
    objects = <<>> =>
        /\ calls = 1
        /\ Returned =>
              /\ last.color = SKYBOX_COLOR
              /\ last.children = <<>>
              /\ last.shadowed = 0

C4_Witness == objects = <<>> /\ Returned /\ last.depth = 0

\* the shadow test of frame fr, as cast_ray sets it up
ShadowDir(fr) == Normalize(VSub(light.position, fr.intersect.point))

ShadowLength(fr) == Magnitude(VSub(light.position, fr.intersect.point))

ShadowHit(fr, i) ==
    ray_intersect(objects[i], offset_origin(fr.intersect, ShadowDir(fr)), ShadowDir(fr))

\* the objects the shadow ray hits nearer than the light
Occluders(fr) ==
    {i \in 1..Len(objects) :
        ShadowHit(fr, i).is_intersecting /\ ShadowHit(fr, i).distance < ShadowLength(fr)}

Least(S) == CHOOSE i \in S : \A j \in S : i <= j

\* C7: the shadow test is decided by the first object in list order that the
\* shadow ray hits nearer than the light: the result is 1 - min(1, (d/L)^2) for
\* its distance d, no later object is examined, and with no such object the
\* result is 0 after the whole list was examined.
C7_FirstOccluderDecides ==
    \A fr \in Scanned :
        fr.shadowed = 1 =>
            IF Occluders(fr) = {}
            THEN fr.shadow = [shadow_intensity |-> RInt(0), examined |-> Len(objects)]
            ELSE LET i == Least(Occluders(fr))
                     r == Rat(ShadowHit(fr, i).distance, ShadowLength(fr))
                 IN  fr.shadow =
                        [shadow_intensity |-> RSub(RInt(1), RMin(RInt(1), RMul(r, r))),
                         examined |-> i]

\* a later occluder is nearer than the deciding one
C7_Witness ==
    \E fr \in Scanned :
        /\ fr.shadowed = 1
        /\ Occluders(fr) # {}
        /\ \E j \in Occluders(fr) :
              /\ j > Least(Occluders(fr))
              /\ ShadowHit(fr, j).distance
                    < ShadowHit(fr, Least(Occluders(fr))).distance
        /\ fr.shadow.examined = Least(Occluders(fr))

\* the nearest-hit part of C10
ShadesNearest ==
    \A fr \in Scanned :
        IF HitSet(fr) = {}
        THEN ~fr.intersect.is_intersecting
        ELSE fr.intersect =
                ray_intersect(objects[FirstNearest(fr)], fr.ray_origin, fr.ray_direction)

\* C10 as stated: for depth <= 3 cast_ray shades the earliest of the hits at the
\* least distance, and returns the sky color iff no object is intersected.
C10_SkyIffNoHit ==
    /\ ShadesNearest
    /\ Returned /\ last.depth <= 3 =>
          (last.color = SKYBOX_COLOR <=> HitSet(last) = {})

\* C10 amended: for depth <= 3 cast_ray shades the earliest of the hits at the
\* least distance, whatever the order of the objects, and returns the sky
\* color whenever no object is intersected (a hit may shade to the sky color
\* too: a perfect mirror reflecting the sky).
C10_NearestHitShaded ==
    /\ ShadesNearest
    /\ Returned /\ last.depth <= 3 /\ HitSet(last) = {} =>
          last.color = SKYBOX_COLOR

\* a later object is hit nearer than an earlier one, and two objects tie
C10_Witness ==
    /\ Returned
    /\ last.depth <= 3
    /\ \E i, j \in HitSet(last) :
          /\ i < j
          /\ HitDistance(last, j) < HitDistance(last, i)
          /\ last.intersect.distance = HitDistance(last, j)
    /\ \E i, j \in HitSet(last) : i # j /\ HitDistance(last, i) = HitDistance(last, j)

(***************************************************************************)
(* Block::ray_intersect and offset_origin on their own (specification      *)
(* SpecGeom): one box, one ray, one outgoing direction                     *)
(***************************************************************************)
Directions == ({-1, 0, 1} \X {-1, 0, 1} \X {-1, 0, 1}) \ {<<0, 0, 0>>}

GeomCoords == {-10, 0, 15, 30, 40}

GeomBlocks ==
    {[min_corner |-> <<0, 0, 0>>, max_corner |-> <<30, 30, 30>>, material |-> rubber],
     [min_corner |-> <<0, 0, 0>>, max_corner |-> <<30, 30, 4>>, material |-> awa],
     [min_corner |-> <<0, 0, 15>>, max_corner |-> <<30, 30, 15>>, material |-> mirror]}

GeomInit ==
    /\ geom \in [pc : {"ray"}, block : GeomBlocks,
                 ray_origin : GeomCoords \X GeomCoords \X GeomCoords,
                 ray_direction : Directions, intersect : {IntersectEmpty},
                 direction : {<<0, 0, 0>>}, origin : {<<0, 0, 0>>}]
    /\ objects = <<>>
    /\ light \in {l \in Lights : l.position[3] = 145}
    /\ stack = <<>>
    /\ last = NoReturn
    /\ calls = 0
    /\ frame = FrameIdle

GeomIntersect ==
    /\ geom.pc = "ray"
    /\ geom' = [geom EXCEPT !.pc = "tested",
                            !.intersect = ray_intersect(geom.block, geom.ray_origin,
                                                        geom.ray_direction)]
    /\ UNCHANGED <<objects, light, stack, last, calls, frame>>

GeomOffset ==
    /\ geom.pc = "tested"
    /\ geom.intersect.is_intersecting
    /\ \E direction \in Directions :
          geom' = [geom EXCEPT !.pc = "offset", !.direction = direction,
                               !.origin = offset_origin(geom.intersect, direction)]
    /\ UNCHANGED <<objects, light, stack, last, calls, frame>>

GeomNext ==
    \/ GeomIntersect
    \/ GeomOffset

SpecGeom == GeomInit /\ [][GeomNext]_vars

InBox(block, p) ==
    \A a \in 1..3 : block.min_corner[a] <= p[a] /\ p[a] <= block.max_corner[a]

StrictlyInside(block, p) ==
    \A a \in 1..3 : block.min_corner[a] < p[a] /\ p[a] < block.max_corner[a]

\* on some axis the ray moves away from both faces of the box
BoxBehind(block, o, d) ==
    \E a \in 1..3 :
        /\ d[a] # 0
        /\ (block.min_corner[a] - o[a]) * d[a] < 0
        /\ (block.max_corner[a] - o[a]) * d[a] < 0

\* C8: ray_intersect reports no hit for an origin strictly inside the box,
\* whatever the direction (zero components included), and none for a box
\* behind the origin; a reported hit is in front of the origin (distance > 0)
\* at the point where the ray enters the box.
C8_NoHitFromInsideOrBehind ==
    geom.pc \in {"tested", "offset"} =>
        LET o == geom.ray_origin
            d == geom.ray_direction
            h == geom.intersect
        IN  /\ StrictlyInside(geom.block, o) => ~h.is_intersecting
            /\ BoxBehind(geom.block, o, d) => ~h.is_intersecting
            /\ h.is_intersecting =>
                  /\ h.distance > 0
                  /\ h.point = VAdd(o, VScale(d, h.distance))
                  /\ InBox(geom.block, h.point)
                  /\ \A t \in 0..(h.distance - 1) :
                        ~InBox(geom.block, VAdd(o, VScale(d, t)))
                  /\ FLt(Fin(0), SlabNear(geom.block, o, d))
                  /\ FLt(SlabNear(geom.block, o, d), SlabFar(geom.block, o, d))

C8_Witness ==
    /\ geom.pc = "tested"
    /\ StrictlyInside(geom.block, geom.ray_origin)
    /\ \E a \in 1..3 : geom.ray_direction[a] = 0
    /\ ~geom.intersect.is_intersecting

\* C9 as stated: the hit point is displaced by the bias along the normal with
\* the sign opposite to that of direction . normal.
C9_OffsetOpposesDirection ==
    geom.pc = "offset" =>
        LET n == geom.intersect.normal
            dn == Dot(geom.direction, n)
            displacement == VSub(geom.origin, geom.intersect.point)
        IN  /\ dn > 0 => displacement = VScale(n, -ORIGIN_BIAS)
            /\ dn < 0 => displacement = VScale(n, ORIGIN_BIAS)

\* C9 amended: the hit point is displaced by the bias along the normal with
\* the sign of direction . normal (against the normal when direction . normal
\* < 0, along it otherwise), so never against the outgoing direction.
C9_OffsetFollowsDirection ==
    geom.pc = "offset" =>
        LET n == geom.intersect.normal
            dn == Dot(geom.direction, n)
            displacement == VSub(geom.origin, geom.intersect.point)
        IN  /\ dn < 0 => displacement = VScale(n, -ORIGIN_BIAS)
            /\ dn >= 0 => displacement = VScale(n, ORIGIN_BIAS)
            /\ Dot(displacement, geom.direction) >= 0

C9_Witness ==
    /\ geom.pc = "offset"
    /\ Dot(geom.direction, geom.intersect.normal) < 0
    /\ geom.origin = VSub(geom.intersect.point, geom.intersect.normal)

(***************************************************************************)
(* main.rs: render and the frame loop of main (specification SpecFrame)    *)
(*                                                                         *)
(* The camera is its eye in spherical coordinates about the center: yaw in *)
(* steps of rotation_speed (PI / 10, 20 steps to the turn), pitch in       *)
(* degrees, distance in tenths of a world unit.  A color that render       *)
(* writes is named by the cast_ray call it comes from.                     *)
(***************************************************************************)
MaxFrames == 2

MaxWidth == 2

MaxHeight == 2

Keys == {"Escape", "Left", "Right", "Up", "Down", "W", "S"}

\* Camera::orbit: yaw about the world up axis, pitch clamped short of the poles
orbit(camera, delta_yaw, delta_pitch) ==
    LET pitch == camera.pitch + 18 * delta_pitch
    IN  [camera EXCEPT !.yaw = (camera.yaw + delta_yaw) % 20,
                       !.pitch = IF pitch > 89 THEN 89
                                 ELSE IF pitch < -89 THEN -89 ELSE pitch]

\* Camera::zoom: the eye moves delta toward the center, never through it
zoom(camera, delta) ==
    [camera EXCEPT !.distance = IF camera.distance - delta < 1 THEN 1
                                ELSE camera.distance - delta]

\* Camera::new(eye (0, 0, 5), center (0, 0, 0), up (0, 1, 0))
CameraNew == [yaw |-> 0, pitch |-> 0, distance |-> 50]

ApplyCall(camera, call) ==
    IF call[1] = "orbit" THEN orbit(camera, call[2], call[3]) ELSE zoom(camera, call[2])

RECURSIVE ApplyCalls(_, _)
ApplyCalls(camera, calls_made) ==
    IF calls_made = <<>> THEN camera
    ELSE ApplyCalls(ApplyCall(camera, Head(calls_made)), Tail(calls_made))

When(cond, call) == IF cond THEN <<call>> ELSE <<>>

KeyCallsUpDownSwapped(held) ==
    When("Left" \in held, <<"orbit", 1, 0>>)
        \o When("Right" \in held, <<"orbit", -1, 0>>)
        \o When("Up" \in held, <<"orbit", 0, 1>>)
        \o When("Down" \in held, <<"orbit", 0, -1>>)
        \o When("W" \in held, <<"zoom", 1>>)
        \o When("S" \in held, <<"zoom", -1>>)

\* lines 316-339: the camera calls of one iteration, in program order
KeyCalls(held) ==
    When("Left" \in held, <<"orbit", 1, 0>>)
        \o When("Right" \in held, <<"orbit", -1, 0>>)
        \o When("Up" \in held, <<"orbit", 0, -1>>)
        \o When("Down" \in held, <<"orbit", 0, 1>>)
        \o When("W" \in held, <<"zoom", 1>>)
        \o When("S" \in held, <<"zoom", -1>>)

\* lines 153-161: the direction of the ray through pixel (x, y), as its screen
\* coordinates in units of perspective_scale, in the basis of the camera
PixelDirection(camera, x, y, width, height) ==
    [screen_x |-> Rat(2 * x - width, height), screen_y |-> Rat(height - 2 * y, height),
     basis |-> camera]

\* line 163: cast_ray(&camera.eye, &rotated_direction, objects, light, 0)
PixelColor(camera, x, y, width, height) ==
    [ray_origin |-> camera, ray_direction |-> PixelDirection(camera, x, y, width, height),
     depth |-> 0]

\* Framebuffer::set_current_color, then Framebuffer::point(x, y)
Point(x, y, hex) == [x |-> x, y |-> y, color |-> hex]

NextPixelColumnMajor(x, y, width, height) ==
    IF y + 1 < height THEN <<x, y + 1>>
    ELSE IF x + 1 < width THEN <<x + 1, 0>> ELSE <<0, height>>

\* lines 151-152: the pixel after (x, y); <<0, height>> when the loops end
NextPixel(x, y, width, height) ==
    IF x + 1 < width THEN <<x + 1, y>> ELSE <<0, y + 1>>

FrameInit ==
    /\ frame \in [pc : {"loop"}, open : {TRUE}, keys : {{}}, camera : {CameraNew},
                  camera_calls : {<<>>}, width : 1..MaxWidth, height : 1..MaxHeight,
                  x : {0}, y : {0}, writes : {<<>>}, frames : {0}]
    /\ objects = <<>>
    /\ light \in {l \in Lights : l.position[3] = 145}
    /\ stack = <<>>
    /\ last = NoReturn
    /\ calls = 0
    /\ geom = GeomIdle

\* line 313: while window.is_open() && !window.is_key_down(Key::Escape)
LoopHead ==
    /\ frame.pc = "loop"
    /\ frame.frames < MaxFrames
    /\ frame' = [frame EXCEPT !.pc = IF frame.open /\ "Escape" \notin frame.keys
                                     THEN "input" ELSE "exit"]
    /\ UNCHANGED <<objects, light, stack, last, calls, geom>>

\* lines 316-339, up to the call of render
HandleInput ==
    /\ frame.pc = "input"
    /\ frame' = [frame EXCEPT !.pc = "render",
                              !.camera_calls = KeyCalls(frame.keys),
                              !.camera = ApplyCalls(frame.camera, KeyCalls(frame.keys)),
                              !.x = 0, !.y = 0, !.writes = <<>>]
    /\ UNCHANGED <<objects, light, stack, last, calls, geom>>

\* one iteration of the pixel loops of render
RenderPixel ==
    /\ frame.pc = "render"
    /\ LET next == NextPixel(frame.x, frame.y, frame.width, frame.height)
       IN  frame' = [frame EXCEPT
                       !.writes = Append(@, Point(frame.x, frame.y,
                                      PixelColor(frame.camera, frame.x, frame.y,
                                                 frame.width, frame.height))),
                       !.x = next[1], !.y = next[2],
                       !.pc = IF next[2] < frame.height /\ next[1] < frame.width
                              THEN "render" ELSE "present"]
    /\ UNCHANGED <<objects, light, stack, last, calls, geom>>

\* lines 343-347: update_with_buffer polls the window and the keys, then sleep
Present ==
    /\ frame.pc = "present"
    /\ \E held \in SUBSET Keys, open \in BOOLEAN :
          frame' = [frame EXCEPT !.pc = "loop", !.keys = held, !.open = open,
                                 !.camera_calls = <<>>, !.frames = @ + 1]
    /\ UNCHANGED <<objects, light, stack, last, calls, geom>>

FrameNext ==
    \/ LoopHead
    \/ HandleInput
    \/ RenderPixel
    \/ Present

SpecFrame == FrameInit /\ [][FrameNext]_vars

\* the writes of a whole pass over width x height pixels, in row-major order
RowMajor(k, width) == <<(k - 1) % width, (k - 1) \div width>>

\* C5: in a render pass the writes are the pixels (x, y), 0 <= x < width,
\* 0 <= y < height, each once, in row-major order, each with the color of the
\* cast_ray call at depth 0 from the camera eye through that pixel; the pass
\* is complete when the buffer is presented.
C5_EveryPixelOnceRowMajor ==
    frame.pc \in {"render", "present"} =>
        /\ Len(frame.writes) <= frame.width * frame.height
        /\ frame.pc = "present" => Len(frame.writes) = frame.width * frame.height
        /\ \A k \in 1..Len(frame.writes) :
              LET w == frame.writes[k]
              IN  /\ <<w.x, w.y>> = RowMajor(k, frame.width)
                  /\ 0 <= w.x /\ w.x < frame.width
                  /\ 0 <= w.y /\ w.y < frame.height
                  /\ w.color.depth = 0
                  /\ w.color.ray_origin = frame.camera
                  /\ w.color.ray_direction.screen_x
                        = Rat(2 * w.x - frame.width, frame.height)
                  /\ w.color.ray_direction.screen_y
                        = Rat(frame.height - 2 * w.y, frame.height)
        /\ \A k, l \in 1..Len(frame.writes) :
              k # l => <<frame.writes[k].x, frame.writes[k].y>>
                          # <<frame.writes[l].x, frame.writes[l].y>>

C5_Witness ==
    /\ frame.pc = "present"
    /\ frame.width = 2
    /\ frame.height = 2
    /\ Len(frame.writes) = 4
    /\ frame.camera # CameraNew

\* the calls the held keys ask for, in the order of the claim
ExpectedCalls(held) ==
    (IF "Left" \in held THEN <<<<"orbit", 1, 0>>>> ELSE <<>>)
        \o (IF "Right" \in held THEN <<<<"orbit", -1, 0>>>> ELSE <<>>)
        \o (IF "Up" \in held THEN <<<<"orbit", 0, -1>>>> ELSE <<>>)
        \o (IF "Down" \in held THEN <<<<"orbit", 0, 1>>>> ELSE <<>>)
        \o (IF "W" \in held THEN <<<<"zoom", 1>>>> ELSE <<>>)
        \o (IF "S" \in held THEN <<<<"zoom", -1>>>> ELSE <<>>)

\* C6: the camera changes only in the input step that precedes render, by
\* exactly the calls the held keys ask for; from the start of render to the
\* presentation it does not change; and when the exit key is seen at the loop
\* head the loop ends without another write.
C6_CameraChangesBetweenPasses ==
    [][/\ frame'.camera # frame.camera =>
             frame.pc = "input" /\ frame'.pc = "render"
       /\ frame.pc = "input" =>
             /\ frame'.pc = "render"
             /\ frame'.camera_calls = ExpectedCalls(frame.keys)
             /\ frame'.camera = ApplyCalls(frame.camera, ExpectedCalls(frame.keys))
       /\ frame.pc \in {"render", "present"} =>
             /\ frame'.camera = frame.camera
             /\ frame.camera_calls = ExpectedCalls(frame.keys)
       /\ frame.pc = "loop" /\ "Escape" \in frame.keys =>
             frame'.pc = "exit" /\ frame'.writes = frame.writes
       /\ frame.pc # "exit"]_vars

C6_Witness ==
    /\ frame.pc = "render"
    /\ frame.keys = Keys \ {"Escape"}
    /\ Len(frame.camera_calls) = 6
    /\ frame.writes # <<>>

====
